---- MODULE Spec2Model ----
(***************************************************************************)
(* ThreadedPriorityQueue<T, Comp> of src/threaded_priority_queue.h: a      *)
(* binary heap in a growable array (HeapVec), guarded by one mutex         *)
(* (m_commMutex) and one condition variable (m_readCondition), with a      *)
(* shutdown flag (m_isDone).  T is modelled as a small range of integers.  *)
(*                                                                         *)
(* A thread is at one of these positions:                                  *)
(*   idle     outside every operation                                      *)
(*   locked   holds m_commMutex, at the top of the operation's body (a     *)
(*            waiting operation evaluates its wait predicate here)         *)
(*   sift     holds m_commMutex, the array is mutated, the percolate call, *)
(*            the notification and the unlock are still to come            *)
(*   waiting  parked in m_readCondition.wait, mutex released               *)
(*   woken    unblocked from the wait, has to reacquire m_commMutex        *)
(*   notify   done(): flag set and mutex released, notify_all to come      *)
(***************************************************************************)
EXTENDS Integers, Sequences, FiniteSets, Bags

\* Bounds of the concurrent specification Spec: item values and queue length.
MaxVal == 2
MaxSize == 2

\* Bounds of the fair specification LiveSpec.
LiveMaxVal == 1
LiveMaxSize == 1

\* Bounds of the heap-ordering specification HeapSpec, and its capacity hints.
HeapMaxVal == 4
HeapMaxSize == 4
MaxReserve == 1

\* The threads sharing the queue, and those of HeapSpec.
Threads == {1, 2, 3}
HeapThreads == {1, 2}
NoThread == 0
NoValue == 0
Values == 1 .. MaxVal
LiveValues == 1 .. LiveMaxVal
HeapValues == 1 .. HeapMaxVal

VARIABLES
    m_arr,           \* HeapVec: the live elements m_arr[0 .. m_size-1]
    m_capacity,      \* HeapVec::m_capacity
    m_isDone,        \* the shutdown flag
    m_commMutex,     \* the thread holding the mutex, or NoThread
    m_readCondition, \* the threads parked in the condition variable
    order,           \* the Comp template argument: "min" or "max"
    pc,              \* each thread's position
    op,              \* each thread's current operation
    arg,             \* each thread's item argument (push family)
    temp,            \* each thread's local temp (pop family)
    ret,             \* the result returned by the step just taken, if any
    ledger           \* history: the bag of the values whose insertion has
                     \* returned, less those a removal has returned

vars == <<m_arr, m_capacity, m_isDone, m_commMutex, m_readCondition, order,
          pc, op, arg, temp, ret, ledger>>

----------------------------------------------------------------------------
\* HeapVec

m_size == Len(m_arr)

\* operator[] : the array is indexed from 0 in the source.
At(h, i) == h[i + 1]

swap(h, i, j) == [h EXCEPT ![i + 1] = h[j + 1], ![j + 1] = h[i + 1]]

\* An empty() that is off by one.
HeapVec_empty_off_by_one(h) == Len(h) <= 1

\* An empty() that reports a closed queue as empty.
HeapVec_empty_or_closed(h) == Len(h) = 0 \/ m_isDone

HeapVec_empty(h) == Len(h) = 0

\* A front() that reads the last slot.
front_reads_back(h) == At(h, Len(h) - 1)

front(h) == At(h, 0)

\* A back() that reads slot 0.
back_reads_front(h) == At(h, 0)

back(h) == At(h, Len(h) - 1)

\* A pop_back that forgets to decrement m_size.
pop_back_keeps_size(h) == h

pop_back(h) == IF Len(h) > 0 THEN SubSeq(h, 1, Len(h) - 1) ELSE h

\* reserve(cap): the capacity after the call.
reserve(capacity, cap) == IF cap <= capacity THEN capacity ELSE cap

\* A growth of one slot instead of a doubling.
grow_by_one(size, capacity) ==
    IF size >= capacity THEN reserve(capacity, capacity + 1) ELSE capacity

\* The capacity after push_back / emplace_back of one element.
grow(size, capacity) ==
    IF size >= capacity
    THEN reserve(capacity, IF capacity = 0 THEN 1 ELSE capacity * 2)
    ELSE capacity

push_back(h, element) == Append(h, element)

----------------------------------------------------------------------------
\* Comparators and heap algorithms

MinHeapComparitor(a, b) == a < b

MaxHeapComparitor(a, b) == a > b

Comp(a, b) ==
    IF order = "min" THEN MinHeapComparitor(a, b) ELSE MaxHeapComparitor(a, b)

\* percolate_up that stops after one level.
percolate_up_once(h, index) ==
    IF index > 0 /\ Comp(At(h, index), At(h, (index - 1) \div 2))
    THEN swap(h, index, (index - 1) \div 2)
    ELSE h

RECURSIVE percolate_up(_, _)
percolate_up(h, index) ==
    IF index > 0 /\ Comp(At(h, index), At(h, (index - 1) \div 2))
    THEN percolate_up(swap(h, index, (index - 1) \div 2), (index - 1) \div 2)
    ELSE h

\* largest_index that never looks at the right child.
largest_index_left_only(h, index) ==
    IF 2 * index + 1 < Len(h) /\ Comp(At(h, 2 * index + 1), At(h, index))
    THEN 2 * index + 1 ELSE index

\* largest_index that takes the right child when the children tie.
largest_index_right_on_tie(h, index) ==
    LET n == Len(h)
        left_child == 2 * index + 1
        right_child == 2 * index + 2
        l1 == IF left_child < n /\ Comp(At(h, left_child), At(h, index))
              THEN left_child ELSE index
    IN  IF right_child < n /\ Comp(At(h, right_child), At(h, index))
                           /\ ~Comp(At(h, l1), At(h, right_child))
        THEN right_child ELSE l1

\* The index percolate_down swaps `index` with; `index` itself when it stops.
largest_index(h, index) ==
    LET n == Len(h)
        left_child == 2 * index + 1
        right_child == 2 * index + 2
        l1 == IF left_child < n /\ Comp(At(h, left_child), At(h, index))
              THEN left_child ELSE index
    IN  IF right_child < n /\ Comp(At(h, right_child), At(h, l1))
        THEN right_child ELSE l1

RECURSIVE percolate_down(_, _)
percolate_down(h, index) ==
    IF 2 * index + 1 < Len(h) /\ largest_index(h, index) # index
    THEN percolate_down(swap(h, index, largest_index(h, index)),
                        largest_index(h, index))
    ELSE h

----------------------------------------------------------------------------
\* Condition variable: the sets of threads one notification may unblock.

\* A notify_one that is never sent.
notify_one_missing(ws) == {{}}

\* notify_one: any one of the parked threads is unblocked, if there is one.
notify_one(ws) == IF ws = {} THEN {{}} ELSE {{w} : w \in ws}

no_notify(ws) == {{}}

\* A notify_all that unblocks a single waiter.
notify_all_wakes_one(ws) == IF ws = {} THEN {{}} ELSE {{w} : w \in ws}

notify_all(ws) == {ws}

----------------------------------------------------------------------------
\* Construction

NoResult == [kind |-> "none", val |-> NoValue]

\* The queue after construction, with the capacity hint in R and Comp in O.
Construct(R, O) ==
    /\ m_arr = <<>>
    /\ m_capacity \in {reserve(0, r) : r \in R}
    /\ m_isDone = FALSE
    /\ m_commMutex = NoThread
    /\ m_readCondition = {}
    /\ order \in O
    /\ pc = [t \in Threads |-> "idle"]
    /\ op = [t \in Threads |-> "none"]
    /\ arg = [t \in Threads |-> NoValue]
    /\ temp = [t \in Threads |-> NoValue]
    /\ ret = NoResult
    /\ ledger = EmptyBag

----------------------------------------------------------------------------
\* Steps shared by the operations

\* Entering operation o: std::lock_guard / std::unique_lock on m_commMutex.
Acquire(t, o, v) ==
    /\ pc[t] = "idle"
    /\ m_commMutex = NoThread
    /\ m_commMutex' = t
    /\ pc' = [pc EXCEPT ![t] = "locked"]
    /\ op' = [op EXCEPT ![t] = o]
    /\ arg' = [arg EXCEPT ![t] = v]
    /\ ret' = NoResult
    /\ UNCHANGED <<m_arr, m_capacity, m_isDone, m_readCondition, order, temp, ledger>>

\* Leaving the operation with a result; the threads in `woken` are unblocked
\* by the notification sent just before.
Finish(t, woken, kind, val) ==
    /\ pc' = [x \in Threads |-> IF x = t THEN "idle"
                                ELSE IF x \in woken THEN "woken" ELSE pc[x]]
    /\ m_readCondition' = m_readCondition \ woken
    /\ op' = [op EXCEPT ![t] = "none"]
    /\ arg' = [arg EXCEPT ![t] = NoValue]
    /\ temp' = [temp EXCEPT ![t] = NoValue]
    /\ ret' = [kind |-> kind, val |-> val]

\* Returning from an operation that holds the mutex releases it (the
\* destructor of lock_guard / unique_lock).
Return(t, woken, kind, val) ==
    /\ Finish(t, woken, kind, val)
    /\ m_commMutex' = NoThread

\* m_readCondition.wait with a false predicate: release the mutex and park.
Park(t) ==
    /\ pc' = [pc EXCEPT ![t] = "waiting"]
    /\ m_readCondition' = m_readCondition \cup {t}
    /\ m_commMutex' = NoThread
    /\ ret' = NoResult
    /\ UNCHANGED <<m_arr, m_capacity, m_isDone, order, op, arg, temp, ledger>>

\* An unblocked waiter reacquires the mutex; it then re-evaluates its predicate.
Reacquire(t) ==
    /\ pc[t] = "woken"
    /\ m_commMutex = NoThread
    /\ m_commMutex' = t
    /\ pc' = [pc EXCEPT ![t] = "locked"]
    /\ ret' = NoResult
    /\ UNCHANGED <<m_arr, m_capacity, m_isDone, m_readCondition, order, op, arg, temp,
                   ledger>>

\* A spurious wakeup of a parked thread.
SpuriousWake(t) ==
    /\ pc[t] = "waiting"
    /\ pc' = [pc EXCEPT ![t] = "woken"]
    /\ m_readCondition' = m_readCondition \ {t}
    /\ ret' = NoResult
    /\ UNCHANGED <<m_arr, m_capacity, m_isDone, m_commMutex, order, op, arg, temp,
                   ledger>>

\* push_back(item) under the lock; percolate_up is still to come.
Insert(t) ==
    /\ m_arr' = push_back(m_arr, arg[t])
    /\ m_capacity' = grow(m_size, m_capacity)
    /\ pc' = [pc EXCEPT ![t] = "sift"]
    /\ ret' = NoResult
    /\ UNCHANGED <<m_isDone, m_commMutex, m_readCondition, order, op, arg, temp,
                   ledger>>

\* percolate_up(m_size - 1); notify_one(); return.
InsertFinish(t) ==
    /\ m_arr' = percolate_up(m_arr, m_size - 1)
    /\ \E woken \in notify_one(m_readCondition) : Return(t, woken, "void", NoValue)
    /\ ledger' = ledger (+) SetToBag({arg[t]})
    /\ UNCHANGED <<m_capacity, m_isDone, order>>

\* temp = move(front()); then the last element replaces the root and the
\* array shrinks by one; percolate_down is still to come.
Remove(t) ==
    /\ temp' = [temp EXCEPT ![t] = front(m_arr)]
    /\ m_arr' = IF m_size > 1
                THEN pop_back([m_arr EXCEPT ![1] = back(m_arr)])
                ELSE pop_back(m_arr)
    /\ pc' = [pc EXCEPT ![t] = "sift"]
    /\ ret' = NoResult
    /\ UNCHANGED <<m_capacity, m_isDone, m_commMutex, m_readCondition, order, op, arg,
                   ledger>>

\* percolate_down(0) if there was more than one element, so that one is
\* left at least; notify_one() if the queue became empty; return temp.
RemoveFinish(t) ==
    /\ m_arr' = IF m_size > 0 THEN percolate_down(m_arr, 0) ELSE m_arr
    /\ \E woken \in (IF HeapVec_empty(m_arr) THEN notify_one(m_readCondition)
                                             ELSE no_notify(m_readCondition)) :
           Return(t, woken, "value", temp[t])
    /\ ledger' = ledger (-) SetToBag({temp[t]})
    /\ UNCHANGED <<m_capacity, m_isDone, order>>

\* A wait predicate that is always true.
no_wait == TRUE

\* The wait predicate of wait_empty_push / wait_empty_emplace.
empty_or_done == HeapVec_empty(m_arr) \/ m_isDone

\* The wait predicate of wait_nonempty_pop / wait_and_get_top.
nonempty_or_done == ~HeapVec_empty(m_arr) \/ m_isDone

\* A shutdown test that never fires.
never_discards == FALSE

\* wait_empty_push past its wait: `if (m_isDone) return;`
discards == m_isDone

----------------------------------------------------------------------------
\* The public operations

\* The queue is unbounded; M bounds the pushes the specification explores.
push(t, V, M) ==
    \/ \E v \in V : m_size < M /\ Acquire(t, "push", v)
    \/ pc[t] = "locked" /\ op[t] = "push" /\ Insert(t)
    \/ pc[t] = "sift" /\ op[t] = "push" /\ InsertFinish(t)

pop(t) ==
    \/ Acquire(t, "pop", NoValue)
    \/ /\ pc[t] = "locked" /\ op[t] = "pop"
       /\ HeapVec_empty(m_arr)
       /\ Return(t, {}, "error", NoValue)
       /\ UNCHANGED <<m_arr, m_capacity, m_isDone, order, ledger>>
    \/ /\ pc[t] = "locked" /\ op[t] = "pop"
       /\ ~HeapVec_empty(m_arr)
       /\ Remove(t)
    \/ pc[t] = "sift" /\ op[t] = "pop" /\ RemoveFinish(t)

wait_empty_push(t, V) ==
    \/ \E v \in V : Acquire(t, "wait_empty_push", v)
    \/ /\ pc[t] = "locked" /\ op[t] = "wait_empty_push"
       /\ ~empty_or_done
       /\ Park(t)
    \/ /\ pc[t] = "locked" /\ op[t] = "wait_empty_push"
       /\ empty_or_done
       /\ discards
       /\ Return(t, {}, "void", NoValue)
       /\ UNCHANGED <<m_arr, m_capacity, m_isDone, order, ledger>>
    \/ /\ pc[t] = "locked" /\ op[t] = "wait_empty_push"
       /\ empty_or_done
       /\ ~discards
       /\ Insert(t)
    \/ pc[t] = "sift" /\ op[t] = "wait_empty_push" /\ InsertFinish(t)

wait_nonempty_pop(t) ==
    \/ Acquire(t, "wait_nonempty_pop", NoValue)
    \/ /\ pc[t] = "locked" /\ op[t] = "wait_nonempty_pop"
       /\ ~nonempty_or_done
       /\ Park(t)
    \/ /\ pc[t] = "locked" /\ op[t] = "wait_nonempty_pop"
       /\ nonempty_or_done
       /\ HeapVec_empty(m_arr)
       /\ Return(t, {}, "nullopt", NoValue)
       /\ UNCHANGED <<m_arr, m_capacity, m_isDone, order, ledger>>
    \/ /\ pc[t] = "locked" /\ op[t] = "wait_nonempty_pop"
       /\ nonempty_or_done
       /\ ~HeapVec_empty(m_arr)
       /\ Remove(t)
    \/ pc[t] = "sift" /\ op[t] = "wait_nonempty_pop" /\ RemoveFinish(t)

top(t) ==
    \/ Acquire(t, "top", NoValue)
    \/ /\ pc[t] = "locked" /\ op[t] = "top"
       /\ HeapVec_empty(m_arr)
       /\ Return(t, {}, "error", NoValue)
       /\ UNCHANGED <<m_arr, m_capacity, m_isDone, order, ledger>>
    \/ /\ pc[t] = "locked" /\ op[t] = "top"
       /\ ~HeapVec_empty(m_arr)
       /\ Return(t, {}, "value", front(m_arr))
       /\ UNCHANGED <<m_arr, m_capacity, m_isDone, order, ledger>>

wait_and_get_top(t) ==
    \/ Acquire(t, "wait_and_get_top", NoValue)
    \/ /\ pc[t] = "locked" /\ op[t] = "wait_and_get_top"
       /\ ~nonempty_or_done
       /\ Park(t)
    \/ /\ pc[t] = "locked" /\ op[t] = "wait_and_get_top"
       /\ nonempty_or_done
       /\ HeapVec_empty(m_arr)
       /\ Return(t, {}, "nullopt", NoValue)
       /\ UNCHANGED <<m_arr, m_capacity, m_isDone, order, ledger>>
    \/ /\ pc[t] = "locked" /\ op[t] = "wait_and_get_top"
       /\ nonempty_or_done
       /\ ~HeapVec_empty(m_arr)
       /\ Return(t, {}, "value", front(m_arr))
       /\ UNCHANGED <<m_arr, m_capacity, m_isDone, order, ledger>>

\* A done() that flips the flag instead of setting it.
done_store_toggles == ~m_isDone

\* A done() that stores false.
done_store_clears == FALSE

\* done(): the value stored by `m_isDone = true;`
done_store == TRUE

done(t) ==
    \/ Acquire(t, "done", NoValue)
    \/ /\ pc[t] = "locked" /\ op[t] = "done"
       /\ m_isDone' = done_store
       /\ m_commMutex' = NoThread
       /\ pc' = [pc EXCEPT ![t] = "notify"]
       /\ ret' = NoResult
       /\ UNCHANGED <<m_arr, m_capacity, m_readCondition, order, op, arg, temp, ledger>>
    \/ /\ pc[t] = "notify" /\ op[t] = "done"
       /\ \E woken \in notify_all(m_readCondition) : Finish(t, woken, "void", NoValue)
       /\ UNCHANGED <<m_arr, m_capacity, m_isDone, m_commMutex, order, ledger>>

\* The accessors that take no lock: one read of m_size or m_isDone.
Unlocked(t, kind, val) ==
    /\ pc[t] = "idle"
    /\ ret' = [kind |-> kind, val |-> val]
    /\ UNCHANGED <<m_arr, m_capacity, m_isDone, m_commMutex, m_readCondition,
                   order, pc, op, arg, temp, ledger>>

size(t) == Unlocked(t, "size", m_size)

empty(t) == Unlocked(t, "empty", IF HeapVec_empty(m_arr) THEN 1 ELSE 0)

is_done(t) == Unlocked(t, "is_done", IF m_isDone THEN 1 ELSE 0)

----------------------------------------------------------------------------
\* Specifications

\* Threads sharing a default-constructed min-heap queue through the
\* operations that change it or wait on it.
Init == Construct({0}, {"min"})

StepOf(t, V, M) ==
    \/ push(t, V, M)
    \/ pop(t)
    \/ wait_empty_push(t, V)
    \/ wait_nonempty_pop(t)
    \/ wait_and_get_top(t)
    \/ done(t)
    \/ Reacquire(t)
    \/ SpuriousWake(t)

Next == \E t \in Threads : StepOf(t, Values, MaxSize)

Spec == Init /\ [][Next]_vars

\* The same threads and operations under fair scheduling.  A thread inside an
\* operation that holds the mutex, or is past its unlock, keeps running; an
\* unblocked waiter gets the mutex if it is free again and again.  Starting
\* an operation and waking spuriously are never forced.
LiveStep(t) == StepOf(t, LiveValues, LiveMaxSize)

LiveNext == \E t \in Threads : LiveStep(t)

Running(t) == pc[t] \in {"locked", "sift", "notify"} /\ LiveStep(t)

Fairness ==
    \A t \in Threads : WF_vars(Running(t)) /\ SF_vars(Reacquire(t))

LiveSpec == Init /\ [][LiveNext]_vars /\ Fairness

\* Every operation, both comparators and a capacity hint, on larger heaps.
HeapInit == Construct(0 .. MaxReserve, {"min", "max"})

HeapNext ==
    \E t \in HeapThreads :
        \/ push(t, HeapValues, HeapMaxSize)
        \/ pop(t)
        \/ wait_empty_push(t, HeapValues)
        \/ wait_nonempty_pop(t)
        \/ top(t)
        \/ wait_and_get_top(t)
        \/ done(t)
        \/ size(t)
        \/ empty(t)
        \/ is_done(t)
        \/ Reacquire(t)
        \/ SpuriousWake(t)

HeapSpec == HeapInit /\ [][HeapNext]_vars

\* One consumer (thread 1) that only calls wait_nonempty_pop and one producer
\* (thread 2) that calls push, and done to close the queue, with at most one
\* item in flight, under
\* the same fair scheduling, for either comparator and any capacity hint.
HandoffConsumer(t) ==
    \/ wait_nonempty_pop(t)
    \/ Reacquire(t)
    \/ SpuriousWake(t)

HandoffProducer(t) == push(t, HeapValues, 1) \/ done(t)

HandoffNext == HandoffConsumer(1) \/ HandoffProducer(2)

HandoffFairness ==
    /\ WF_vars(pc[1] \in {"locked", "sift"} /\ HandoffConsumer(1))
    /\ WF_vars(pc[2] \in {"locked", "sift", "notify"} /\ HandoffProducer(2))
    /\ SF_vars(Reacquire(1))

HandoffSpec == HeapInit /\ [][HandoffNext]_vars /\ HandoffFairness

----------------------------------------------------------------------------
\* Shared vocabulary of the properties

WaitOps == {"wait_empty_push", "wait_nonempty_pop", "wait_and_get_top"}

Range(h) == {h[i] : i \in 1 .. Len(h)}

\* The element of h no other element is ordered before.
Extremal(h) == CHOOSE x \in Range(h) : \A y \in Range(h) : ~Comp(y, x)

\* The number of occurrences of x in h.
Count(h, x) == Cardinality({i \in 1 .. Len(h) : h[i] = x})

HeapOK(h) ==
    \A i \in 0 .. Len(h) - 1 :
        \A c \in {2 * i + 1, 2 * i + 2} :
            c < Len(h) => ~Comp(At(h, c), At(h, i))

\* C1: a successful pop() takes the extremal element under Comp of the
\* elements held when it runs, removes exactly one occurrence of it, and
\* returns it; nothing left in the queue is ordered before the returned
\* value, so successive pops come out sorted.
C1_PopReturnsExtremal ==
    [][\A t \in Threads :
          /\ (op[t] = "pop" /\ pc[t] = "locked" /\ pc'[t] = "sift") =>
                 /\ temp'[t] = Extremal(m_arr)
                 /\ \A x \in Range(m_arr) :
                        Count(m_arr', x) =
                            Count(m_arr, x) - (IF x = temp'[t] THEN 1 ELSE 0)
          /\ (op[t] = "pop" /\ pc[t] = "sift" /\ pc'[t] = "idle") =>
                 /\ ret' = [kind |-> "value", val |-> temp[t]]
                 /\ \A y \in Range(m_arr') : ~Comp(y, ret'.val)
                 /\ Len(m_arr') = Len(m_arr)]_vars

\* A pop() has removed the extremal of four distinct values and is about to
\* return it.
C1_Witness ==
    \E t \in Threads :
        /\ op[t] = "pop" /\ pc[t] = "sift"
        /\ m_size = 3
        /\ Cardinality(Range(m_arr) \cup {temp[t]}) = 4

\* C2: whenever no thread holds the mutex, no child is ordered before its
\* parent: for i in [0, m_size) and c in {2i+1, 2i+2} with c < m_size,
\* Comp(m_arr[c], m_arr[i]) is false.
C2_HeapInvariant == (m_commMutex = NoThread) => HeapOK(m_arr)

\* Three elements are left, in heap order, right after the removal of a
\* value that was ordered before all of them.
C2_Witness ==
    /\ m_commMutex = NoThread
    /\ m_size = 3
    /\ Cardinality(Range(m_arr)) = 3
    /\ ret.kind = "value"
    /\ Comp(ret.val, front(m_arr))

\* The other side of C2: the array is out of heap order in some state in
\* which an operation holds the mutex.
C2_TornUnderLock == (m_commMutex # NoThread) /\ ~HeapOK(m_arr)

\* The parked threads by the kind of operation they are parked in.
ParkedConsumers ==
    {w \in m_readCondition : op[w] \in {"wait_nonempty_pop", "wait_and_get_top"}}

ParkedProducers == {w \in m_readCondition : op[w] = "wait_empty_push"}

\* C3: once the shutdown flag is set, every thread that is inside one of the
\* waiting operations (parked, unblocked, or just entered) returns.
C3_ShutdownWakesAll ==
    \A t \in Threads :
        (m_isDone /\ pc[t] # "idle" /\ op[t] \in WaitOps) ~> (pc[t] = "idle")

\* done() has unblocked two threads that were parked in wait_nonempty_pop on
\* an empty queue.
C3_Witness ==
    /\ m_isDone
    /\ m_size = 0
    /\ Cardinality({t \in Threads :
                       pc[t] = "woken" /\ op[t] = "wait_nonempty_pop"}) = 2

\* C4: no thread stays parked in wait_nonempty_pop for ever while the queue
\* holds an element: again and again it is not parked there with the queue
\* non-empty.
C4_ConsumerNotParkedForever ==
    \A t \in Threads :
        []<>~(pc[t] = "waiting" /\ op[t] = "wait_nonempty_pop" /\ m_size > 0)

\* C5: when pop() or wait_nonempty_pop() removes the last element while a
\* thread is parked in wait_empty_push, its notification unblocks a thread
\* parked in wait_empty_push.
C5_EmptyingWakesProducer ==
    [][\A t \in Threads :
          (/\ op[t] \in {"pop", "wait_nonempty_pop"}
           /\ pc[t] = "sift" /\ pc'[t] = "idle"
           /\ m_arr' = <<>>
           /\ ParkedProducers # {})
          => \E w \in ParkedProducers : pc'[w] = "woken"]_vars

\* C6: push(item) makes the queue one longer, and when a thread is parked in
\* wait_nonempty_pop or wait_and_get_top its notification unblocks one of
\* those threads.
C6_PushWakesConsumer ==
    [][\A t \in Threads :
          /\ (op[t] = "push" /\ pc[t] = "locked" /\ pc'[t] = "sift")
                 => Len(m_arr') = Len(m_arr) + 1
          /\ (op[t] = "push" /\ pc[t] = "sift" /\ pc'[t] = "idle")
                 => /\ Len(m_arr') = Len(m_arr)
                    /\ ParkedConsumers # {}
                           => \E c \in ParkedConsumers : pc'[c] = "woken"]_vars

\* C7: with one producer, one consumer and one item in flight, the consumer
\* in wait_nonempty_pop returns, while the shutdown flag is clear, only with
\* a value it took from the queue under the lock; push(v) leaves exactly v
\* in the queue; and a consumer inside wait_nonempty_pop while the queue
\* holds v returns v, leaving the queue empty.
C7_BlockingHandoff ==
    /\ [][((pc[1] # "idle" /\ pc'[1] = "idle" /\ ~m_isDone)
               => (pc[1] = "sift" /\ ret' = [kind |-> "value", val |-> temp[1]]))
           /\
           ((op[2] = "push" /\ pc[2] = "locked" /\ pc'[2] = "sift")
               => m_arr' = <<arg[2]>>)]_vars
    /\ \A v \in HeapValues :
           (pc[1] # "idle" /\ m_arr = <<v>>)
               ~> (/\ pc[1] = "idle"
                   /\ ret = [kind |-> "value", val |-> v]
                   /\ m_arr = <<>>)

\* The consumer is parked on the queue it found empty, the producer has
\* just inserted its item and has not notified yet.
C7_Witness ==
    /\ pc[1] = "waiting" /\ op[1] = "wait_nonempty_pop"
    /\ pc[2] = "sift" /\ op[2] = "push"
    /\ m_arr = <<arg[2]>>
    /\ ~m_isDone

\* C8: wait_nonempty_pop and wait_and_get_top, holding the lock past their
\* wait, return "no value" only if the queue is empty and the shutdown flag
\* set; if the queue is non-empty (shutdown or not) they take the extremal
\* element under Comp; they never end in the empty-queue error.
C8_NoValueOnlyWhenClosed ==
    [][\A t \in Threads :
          /\ (/\ op[t] \in {"wait_nonempty_pop", "wait_and_get_top"}
              /\ pc[t] = "locked" /\ pc'[t] # "locked")
             => /\ (pc'[t] = "idle" /\ ret'.kind = "nullopt")
                       => (m_size = 0 /\ m_isDone)
                /\ pc'[t] = "idle" => ret'.kind \in {"value", "nullopt"}
                /\ m_size > 0 =>
                       IF op[t] = "wait_and_get_top"
                       THEN /\ pc'[t] = "idle"
                            /\ ret' = [kind |-> "value", val |-> Extremal(m_arr)]
                       ELSE /\ pc'[t] = "sift"
                            /\ temp'[t] = Extremal(m_arr)
          /\ (op[t] = "wait_nonempty_pop" /\ pc[t] = "sift" /\ pc'[t] = "idle")
             => ret' = [kind |-> "value", val |-> temp[t]]]_vars

\* After shutdown, wait_nonempty_pop holds the lock on a queue of three
\* distinct values.
C8_Witness ==
    \E t \in Threads :
        /\ op[t] = "wait_nonempty_pop" /\ pc[t] = "locked"
        /\ m_isDone
        /\ m_size = 3 /\ Cardinality(Range(m_arr)) = 3

\* C9: wait_empty_push that holds the lock past its wait with the shutdown
\* flag set returns without pushing: array, size and capacity unchanged.
\* With the flag clear it appends its item to the (empty) queue, restores
\* the heap order and returns, as push does; otherwise it parks.
C9_DiscardOnShutdown ==
    [][\A t \in Threads :
          /\ (op[t] = "wait_empty_push" /\ pc[t] = "locked" /\ pc'[t] # "locked")
             => IF m_isDone
                THEN /\ pc'[t] = "idle"
                     /\ m_arr' = m_arr
                     /\ m_capacity' = m_capacity
                     /\ ret'.kind = "void"
                ELSE IF m_size = 0
                THEN /\ pc'[t] = "sift"
                     /\ m_arr' = Append(m_arr, arg[t])
                ELSE /\ pc'[t] = "waiting"
                     /\ m_arr' = m_arr
          /\ (op[t] = "wait_empty_push" /\ pc[t] = "sift" /\ pc'[t] = "idle")
             => /\ m_arr' = <<arg[t]>>
                /\ ret'.kind = "void"]_vars

\* wait_empty_push holds the lock on an empty queue after shutdown: it would
\* have pushed, and discards.
C9_Witness ==
    \E t \in Threads :
        /\ op[t] = "wait_empty_push" /\ pc[t] = "locked"
        /\ m_isDone
        /\ m_size = 0

\* C10: wait_empty_push inserts only into an empty queue, so the size right
\* after its insertion, and when it returns, is 1; wait_nonempty_pop removes
\* only from a non-empty queue.
C10_PredicateRechecked ==
    [][\A t \in Threads :
          /\ (op[t] = "wait_empty_push" /\ pc[t] = "locked" /\ pc'[t] = "sift")
             => (m_size = 0 /\ Len(m_arr') = 1)
          /\ (op[t] = "wait_empty_push" /\ pc[t] = "sift" /\ pc'[t] = "idle")
             => Len(m_arr') = 1
          /\ (op[t] = "wait_nonempty_pop" /\ pc[t] = "locked" /\ pc'[t] = "sift")
             => (m_size > 0 /\ Len(m_arr') = m_size - 1)]_vars

\* An unblocked wait_empty_push whose predicate is false again (the wakeup
\* was spurious, or another thread refilled the queue first), next to an
\* unblocked wait_nonempty_pop: at most one of them can go on.
C10_Witness ==
    \E t, u \in Threads :
        /\ op[t] = "wait_empty_push" /\ pc[t] = "woken"
        /\ op[u] = "wait_nonempty_pop" /\ pc[u] = "woken"
        /\ m_size > 0
        /\ ~m_isDone

\* The threads inside done() that have set the flag and have yet to notify.
PendingDone == {u \in Threads : op[u] = "done" /\ pc[u] = "notify"}

\* C11: every step that writes the backing array, its capacity or the
\* shutdown flag, or that returns a result read from them (a value, "no
\* value", the empty-queue error, a size, an emptiness, the flag), is taken
\* by the thread that holds the mutex.
C11_EveryAccessUnderMutex ==
    [][(\/ m_arr' # m_arr
        \/ m_capacity' # m_capacity
        \/ m_isDone' # m_isDone
        \/ ret'.kind \in {"value", "nullopt", "error", "size", "empty", "is_done"})
       => (/\ m_commMutex # NoThread
           /\ pc'[m_commMutex] # pc[m_commMutex])]_vars

\* C12: the shutdown flag is false at construction, and no step of any
\* operation takes it from true to false.
C12_DoneMonotonic == ~m_isDone /\ [][m_isDone => m_isDone']_vars

\* After shutdown a second done() holds the lock and is about to store the
\* flag again, while the other thread is inside a blocking operation.
C12_Witness ==
    \E t, u \in Threads :
        /\ m_isDone
        /\ op[t] = "done" /\ pc[t] = "locked"
        /\ op[u] \in WaitOps /\ pc[u] = "woken"

\* C13: every step of done() leaves the heap contents, the size and the
\* capacity alone and leaves the flag set; once the flag is set the set of
\* parked threads never grows, and it is empty whenever no done() is between
\* its store and its notify_all, so that a further done() finds and leaves
\* the same state; is_done() returns true once a done() has stored the flag.
C13_DoneIdempotent ==
    /\ [][/\ \A t \in Threads :
                (op[t] = "done" /\ pc[t] # "idle" /\ pc'[t] # pc[t])
                    => (/\ m_arr' = m_arr
                        /\ m_capacity' = m_capacity
                        /\ m_isDone')
          /\ (m_isDone => (m_readCondition' \subseteq m_readCondition))
          /\ ((m_isDone /\ ret'.kind = "is_done") => (ret'.val = 1))]_vars
    /\ []((m_isDone /\ PendingDone = {}) => (m_readCondition = {}))

\* The first done() has returned, a second one holds the lock and is about
\* to store the flag again; the queue holds a value.
C13_Witness ==
    \E t \in Threads :
        /\ m_isDone
        /\ PendingDone = {}
        /\ op[t] = "done" /\ pc[t] = "locked"
        /\ m_size > 0

\* The bag of the elements of h.
BagOf(h) == [x \in Range(h) |-> Count(h, x)]

\* No thread is between its write to the array and its return.
Settled == \A t \in Threads : pc[t] # "sift"

\* The values of the insertions and removals that have written the array and
\* have not returned yet.
InFlightInserted ==
    {arg[t] : t \in {u \in Threads :
                        pc[u] = "sift" /\ op[u] \in {"push", "wait_empty_push"}}}

InFlightRemoved ==
    {temp[t] : t \in {u \in Threads :
                         pc[u] = "sift" /\ op[u] \in {"pop", "wait_nonempty_pop"}}}

\* C14: when every insertion and removal that has written the array has
\* returned, size() returns the number of completed insertions less the
\* number of completed removals, and empty() returns true exactly when that
\* number is 0; at any time empty() is true exactly when the length size()
\* reads is 0.
C14_RoundTripSize ==
    /\ (ret.kind = "size" /\ Settled) => (ret.val = BagCardinality(ledger))
    /\ (ret.kind = "empty" /\ Settled)
           => ((ret.val = 1) <=> (BagCardinality(ledger) = 0))
    /\ (ret.kind = "empty") => ((ret.val = 1) <=> (m_size = 0))

\* size() returns 2 on a settled queue whose capacity has grown to 4: at
\* least three insertions and one removal have completed.
C14_Witness ==
    /\ ret = [kind |-> "size", val |-> 2]
    /\ Settled
    /\ m_capacity = 4

\* C19: the bag of the elements held, together with the value a removal
\* has taken and not yet returned, is the bag of the values inserted less
\* those returned, together with the value an insertion has written and not
\* yet returned; with the mutex free the two bags are equal.  A removal
\* returns a value that was inserted and not returned before, and a
\* wait_empty_push that returns without inserting does so under shutdown.
C19_ElementConservation ==
    /\ [](BagOf(m_arr) (+) SetToBag(InFlightRemoved)
              = ledger (+) SetToBag(InFlightInserted))
    /\ []((m_commMutex = NoThread) => (BagOf(m_arr) = ledger))
    /\ [][\A t \in Threads :
             /\ (/\ op[t] \in {"pop", "wait_nonempty_pop"}
                 /\ pc[t] = "sift" /\ pc'[t] = "idle")
                => (/\ ret'.kind = "value"
                    /\ BagIn(ret'.val, ledger)
                    /\ CopiesIn(ret'.val, ledger') = CopiesIn(ret'.val, ledger) - 1)
             /\ (op[t] = "wait_empty_push" /\ pc[t] = "locked" /\ pc'[t] = "idle")
                => (m_isDone /\ m_arr' = m_arr /\ ledger' = ledger)]_vars

\* A removal has just returned a value of which the queue still holds
\* another copy, while a second consumer, unblocked, has yet to run.
C19_Witness ==
    /\ ret.kind = "value"
    /\ m_arr = <<ret.val>>
    /\ m_commMutex = NoThread
    /\ \E u \in Threads : op[u] = "wait_nonempty_pop" /\ pc[u] = "woken"

\* C15: an operation ends in the empty-queue error exactly when it is pop()
\* or top() holding the lock on an empty queue: such a call always ends in
\* the error, and no other step of any operation or accessor produces it.
C15_EmptyQueueError ==
    [][/\ \A t \in Threads :
            /\ (pc[t] # "idle" /\ pc'[t] = "idle")
               => ((ret'.kind = "error")
                      <=> (op[t] \in {"pop", "top"} /\ pc[t] = "locked" /\ m_size = 0))
            /\ (/\ op[t] \in {"pop", "top"}
                /\ pc[t] = "locked" /\ pc'[t] # "locked"
                /\ m_size = 0)
               => (pc'[t] = "idle" /\ ret'.kind = "error")
       /\ ((ret'.kind = "error")
              => (\E t \in Threads : pc[t] = "locked" /\ pc'[t] = "idle"))]_vars

\* pop() holds the lock on a freshly constructed queue: nothing was ever
\* inserted and no storage was ever allocated.
C15_Witness ==
    \E t \in Threads :
        /\ op[t] = "pop" /\ pc[t] = "locked"
        /\ m_size = 0
        /\ m_capacity = 0
        /\ ledger = EmptyBag
        /\ ~m_isDone

\* C16: no step of top() or wait_and_get_top(), no failing pop() and no
\* accessor (size, empty, is_done) changes the array, its length, the
\* capacity or the shutdown flag; a top() or wait_and_get_top() that
\* returns a value returns the extremal element under Comp of the queue it
\* leaves, which is what pop() takes from that queue (C1).
C16_ReadOnlyFrame ==
    [][/\ \A t \in Threads :
            /\ (\/ op'[t] \in {"top", "wait_and_get_top"} /\ pc'[t] # pc[t]
                \/ op[t] \in {"top", "wait_and_get_top"} /\ pc'[t] # pc[t]
                \/ op[t] = "pop" /\ pc[t] = "locked" /\ pc'[t] = "idle")
               => (/\ m_arr' = m_arr
                   /\ m_capacity' = m_capacity
                   /\ m_isDone' = m_isDone)
            /\ (/\ op[t] \in {"top", "wait_and_get_top"}
                /\ pc[t] = "locked" /\ pc'[t] = "idle"
                /\ ret'.kind = "value")
               => (m_size > 0 /\ ret'.val = Extremal(m_arr'))
       /\ ((ret'.kind \in {"size", "empty", "is_done"})
              => (/\ m_arr' = m_arr
                  /\ m_capacity' = m_capacity
                  /\ m_isDone' = m_isDone))]_vars

\* top() holds the lock on a queue of three distinct values.
C16_Witness ==
    \E t \in Threads :
        /\ op[t] = "top" /\ pc[t] = "locked"
        /\ m_size = 3 /\ Cardinality(Range(m_arr)) = 3

\* A step that appends to the array: push_back / emplace_back.
Inserting(t) ==
    /\ op[t] \in {"push", "wait_empty_push"}
    /\ pc[t] = "locked"
    /\ pc'[t] = "sift"

\* C17: the length never exceeds the capacity; the capacity never
\* decreases; an insertion that finds length = capacity takes the capacity
\* to 1 from 0 and to twice its value otherwise, an insertion that finds
\* length < capacity leaves it; no other step changes it; and reserve(n)
\* with n <= capacity leaves it.
C17_StorageBounds ==
    /\ [](m_size <= m_capacity)
    /\ [](\A n \in 0 .. m_capacity : reserve(m_capacity, n) = m_capacity)
    /\ [][/\ m_capacity' >= m_capacity
          /\ \A t \in Threads :
                Inserting(t)
                    => (m_capacity' =
                            IF m_size = m_capacity
                            THEN (IF m_capacity = 0 THEN 1 ELSE 2 * m_capacity)
                            ELSE m_capacity)
          /\ ((m_capacity' # m_capacity)
                  => (\E t \in Threads : Inserting(t)))]_vars

\* An insertion holds the lock on a full array of capacity 2.
C17_Witness ==
    \E t \in Threads :
        /\ op[t] \in {"push", "wait_empty_push"} /\ pc[t] = "locked"
        /\ m_size = 2
        /\ m_capacity = 2

\* c is a child of index i in h that is ordered before the element at i.
Better(h, c, i) == c < Len(h) /\ Comp(At(h, c), At(h, i))

\* C18: where percolate_down runs (the array of a removal between its write
\* and its return), at every index i: if both children are ordered before
\* the element at i and neither child before the other, the left child
\* 2i+1 is chosen; the right child is chosen only if it is ordered before
\* the left one; i itself (no swap) is chosen exactly when neither child is
\* ordered before the element at i.  The step then leaves the sibling of
\* the chosen child in place, and leaves the array alone when it stops.
C18_LeftOnTies ==
    [][\A t \in Threads :
          (op[t] \in {"pop", "wait_nonempty_pop"} /\ pc[t] = "sift" /\ pc'[t] = "idle")
          => (/\ \A i \in 0 .. m_size - 1 :
                   LET l == 2 * i + 1
                       r == 2 * i + 2
                   IN  /\ ((/\ Better(m_arr, l, i) /\ Better(m_arr, r, i)
                            /\ ~Comp(At(m_arr, l), At(m_arr, r))
                            /\ ~Comp(At(m_arr, r), At(m_arr, l)))
                           => (largest_index(m_arr, i) = l))
                       /\ ((largest_index(m_arr, i) = r)
                           => Comp(At(m_arr, r), At(m_arr, l)))
                       /\ ((largest_index(m_arr, i) = i)
                           <=> (~Better(m_arr, l, i) /\ ~Better(m_arr, r, i)))
              /\ ((/\ Better(m_arr, 1, 0) /\ Better(m_arr, 2, 0)
                   /\ ~Comp(At(m_arr, 1), At(m_arr, 2))
                   /\ ~Comp(At(m_arr, 2), At(m_arr, 1)))
                  => (/\ At(m_arr', 0) = At(m_arr, 1)
                      /\ At(m_arr', 2) = At(m_arr, 2)))
              /\ ((m_size > 2 /\ At(m_arr', 2) # At(m_arr, 2))
                  => Comp(At(m_arr, 2), At(m_arr, 1)))
              /\ ((~Better(m_arr, 1, 0) /\ ~Better(m_arr, 2, 0))
                  => (m_arr' = m_arr)))]_vars

\* pop() has moved the last element to the root; both children are ordered
\* before it and tie with each other.
C18_Witness ==
    \E t \in Threads :
        /\ op[t] = "pop" /\ pc[t] = "sift"
        /\ m_size = 3
        /\ Comp(At(m_arr, 1), At(m_arr, 0))
        /\ At(m_arr, 1) = At(m_arr, 2)

\* C20: with the shutdown flag set, push still appends its item and leaves
\* the array in heap order with the same elements; pop and wait_nonempty_pop
\* on a non-empty queue still take the extremal element, shrink the queue
\* by one and return that element; wait_empty_push never inserts.
C20_OpenAfterShutdown ==
    [][\A t \in Threads :
          (m_isDone /\ pc'[t] # pc[t])
          => (/\ ((op[t] = "push" /\ pc[t] = "locked")
                  => (pc'[t] = "sift" /\ m_arr' = Append(m_arr, arg[t])))
              /\ ((op[t] = "push" /\ pc[t] = "sift")
                  => (/\ pc'[t] = "idle"
                      /\ HeapOK(m_arr')
                      /\ BagOf(m_arr') = BagOf(m_arr)))
              /\ ((/\ op[t] \in {"pop", "wait_nonempty_pop"}
                   /\ pc[t] = "locked" /\ m_size > 0)
                  => (/\ pc'[t] = "sift"
                      /\ temp'[t] = Extremal(m_arr)
                      /\ Len(m_arr') = m_size - 1))
              /\ ((op[t] \in {"pop", "wait_nonempty_pop"} /\ pc[t] = "sift")
                  => (/\ pc'[t] = "idle"
                      /\ ret' = [kind |-> "value", val |-> temp[t]]
                      /\ HeapOK(m_arr')))
              /\ ((op[t] = "wait_empty_push" /\ pc[t] = "locked")
                  => (pc'[t] = "idle" /\ m_arr' = m_arr)))]_vars

\* After shutdown a push has appended a second item and is about to
\* restore the heap order, while a consumer unblocked by done() has yet to
\* run.
C20_Witness ==
    \E t, u \in Threads :
        /\ m_isDone
        /\ op[t] = "push" /\ pc[t] = "sift"
        /\ m_size = 2
        /\ op[u] = "wait_nonempty_pop" /\ pc[u] = "woken"

====
